---- MODULE Spec2Model ----
(***************************************************************************)
(* BLE GATT server of esp32_ble/Bluedroid_GATT_Server/main/main.c:         *)
(* the GATTS/GAP event handlers (run by the Bluetooth host task) and the   *)
(* periodic notify task (a FreeRTOS task of its own), sharing the file's   *)
(* static variables without any lock.                                      *)
(*                                                                         *)
(* TLC's integers are 32 bits wide and signed, so the uint32_t sequence    *)
(* counter and the uint64_t timestamp are kept as little-endian sequences  *)
(* of 16-bit limbs (2 limbs for uint32_t, 4 for uint64_t); increments      *)
(* carry between limbs and wrap at the type's width as in C.               *)
(***************************************************************************)
EXTENDS Integers, Sequences, FiniteSets, TLC

\* -------------------- Tunables and flags of main.c --------------------
SENSOR_PERIOD_MS == 1000
LED_PULSE_MS == 250
SENSOR_PAYLOAD_LEN == 12
ADV_CONFIG_FLAG == 1
\* No scan-response configuration is ever requested, so its completion
\* never arrives and its bit is never set.
SCAN_RSP_CONFIG_FLAG == 2
ESP_GATT_IF_NONE == 255
CONN_ID_NONE == 65535

\* -------------------- Bounds of the model --------------------
\* Number of times the notify task may return from vTaskDelayUntil.
MaxTicks == 2

\* -------------------- Values chosen by the Bluetooth stack --------------------
\* What the stack reports in its completions on success: the interface of
\* the registered application and the attribute handles it allocates.
Stack == [gatts_if |-> 3, service_handle |-> 40, char_handle |-> 42, descr_handle |-> 43]
\* gatts_if delivered with a failed registration (stack dependent).
InvalidIfs == {0, ESP_GATT_IF_NONE}
ConnIds == {0, 1}
TransIds == {1, 2}
\* The stack holds no connection (no conn_id is negative).
NoLink == 0 - 1
Statuses == {"ESP_GATT_OK", "ESP_GATT_ERROR"}
Rets == {"ESP_OK", "ESP_FAIL"}
BtStatuses == {"ESP_BT_STATUS_SUCCESS", "ESP_BT_STATUS_FAIL"}

\* -------------------- Fixed-width unsigned integers --------------------
Limb == 2^16
U8 == 2^8
U32Zero == <<0, 0>>
\* 2^32 - 2, two increments before the wrap
U32NearWrap == <<Limb - 2, Limb - 1>>

\* s + 1 on uint32_t (seq++)
U32Inc(s) ==
    IF s[1] + 1 < Limb THEN <<s[1] + 1, s[2]>>
    ELSE <<0, (s[2] + 1) % Limb>>

RECURSIVE U32Add(_, _)
\* s + n on uint32_t, n a small natural
U32Add(s, n) == IF n = 0 THEN s ELSE U32Add(U32Inc(s), n - 1)

\* (uint8_t)(x >> (8 * k)) for x held as 16-bit limbs
ByteOf(x, k) == (x[(k \div 2) + 1] \div (IF k % 2 = 0 THEN 1 ELSE U8)) % U8

\* (uint64_t)esp_timer_get_time() with the clock at ms milliseconds
TimeUs(ms) == <<(ms * 1000) % Limb, (ms * 1000) \div Limb, 0, 0>>

\* Variant: both fields are stored most significant byte first.
PayloadByte_BigEndian(i, s, t) == IF i < 4 THEN ByteOf(s, 3 - i) ELSE ByteOf(t, 11 - i)

\* Byte i (0-based) of the payload [seq:u32 LE][t_us:u64 LE]
PayloadByte(i, s, t) == IF i < 4 THEN ByteOf(s, i) ELSE ByteOf(t, i - 4)

\* Reading the payload back: little-endian u32 at bytes 0..3, u64 at 4..11
DecodeSeq(b) == <<b[1] + U8 * b[2], b[3] + U8 * b[4]>>
DecodeTime(b) == <<b[5] + U8 * b[6], b[7] + U8 * b[8], b[9] + U8 * b[10], b[11] + U8 * b[12]>>

ZeroValue == [i \in 1..SENSOR_PAYLOAD_LEN |-> 0]

VARIABLES
    \* static variables of main.c
    adv_config_done, sensor_ready, notify_enabled, g_gatts_if, g_conn_id,
    g_service_handle, g_char_handle, g_cccd_handle, sensor_value,
    \* the LED strip: what the LED shows ("off" or "green") and the pixel
    \* buffer that the next refresh transmits; strip itself is non-NULL
    \* once led_init_rgb has returned (ESP_ERROR_CHECK aborts otherwise)
    led, pixel,
    \* locals and position of sensor_notify_task
    pc, seq, last_wake, t_us, err, wi,
    \* the Bluetooth stack and the clock
    now, link, adv, pending, attrs, attr_value,
    \* observation: the API calls of the latest step, the latest event
    \* handled, the setup requests issued so far, the completions handled
    \* so far, whether some setup step reported a failure, and the task's
    \* wake-ups, send attempts and starting counter value
    out, lastEvt, reqs, completed, setupFailed, ticks, attempts, seq0

progVars == <<adv_config_done, sensor_ready, notify_enabled, g_gatts_if, g_conn_id,
              g_service_handle, g_char_handle, g_cccd_handle>>
taskVars == <<pc, seq, last_wake, t_us, err, wi, ticks, attempts, seq0>>
setupVars == <<pending, attrs, reqs, completed, setupFailed>>
vars == <<adv_config_done, sensor_ready, notify_enabled, g_gatts_if, g_conn_id,
          g_service_handle, g_char_handle, g_cccd_handle, sensor_value, led, pixel,
          pc, seq, last_wake, t_us, err, wi,
          now, link, adv, pending, attrs, attr_value,
          out, lastEvt, reqs, completed, setupFailed, ticks, attempts, seq0>>

\* The event being handled, with what it carries (for a write) and the
\* subscription state it found.
EvArg(k, a) == [kind |-> k, arg |-> a, was_notify |-> notify_enabled, was_link |-> link]
Ev(k) == EvArg(k, <<>>)

Call(name) == [api |-> name]
ApiNames(calls) == [i \in 1..Len(calls) |-> calls[i].api]
Count(calls, name) == Cardinality({i \in 1..Len(calls) : calls[i].api = name})

\* -------------------- State after app_main --------------------
\* app_main has initialised the LED (cleared), registered both callbacks,
\* requested the registration of GATT application 0 and created the notify
\* task, which has read its first last_wake.
InitCommon ==
    /\ adv_config_done = 0
    /\ sensor_ready = FALSE
    /\ notify_enabled = FALSE
    /\ g_gatts_if = ESP_GATT_IF_NONE
    /\ g_conn_id = CONN_ID_NONE
    /\ g_service_handle = 0
    /\ g_char_handle = 0
    /\ g_cccd_handle = 0
    /\ sensor_value = ZeroValue
    /\ led = "off"
    /\ pixel = "off"
    /\ pc = "delay"
    /\ last_wake = 0
    /\ t_us = TimeUs(0)
    /\ err = "ESP_OK"
    /\ wi = 0
    /\ now = 0
    /\ link = NoLink
    /\ adv = "idle"
    /\ pending = {"REG"}
    /\ attrs = {}
    /\ attr_value = ZeroValue
    /\ out = <<>>
    /\ lastEvt = [kind |-> "none", arg |-> <<>>, was_notify |-> FALSE, was_link |-> NoLink]
    /\ reqs = <<"app_register">>
    /\ completed = {}
    /\ setupFailed = FALSE
    /\ ticks = 0
    /\ attempts = 0

Init ==
    /\ InitCommon
    /\ seq = U32Zero
    /\ seq0 = U32Zero

\* -------------------- Advertising (stack side) --------------------
\* esp_ble_gap_start_advertising: the stack starts advertising and will
\* report the outcome in ESP_GAP_BLE_ADV_START_COMPLETE_EVT.
StartAdvertising(a) == IF a = "on" THEN "on" ELSE "starting"

\* -------------------- GAP callback --------------------
\* adv_config_done &= (~flag), flag a single bit
ClearFlag(mask, flag) == IF (mask \div flag) % 2 = 1 THEN mask - flag ELSE mask

\* The calls a configuration completion makes once the mask is cleared.
GapConfigCalls(mask) == IF mask = 0 THEN <<Call("start_advertising")>> ELSE <<>>

GapAdvDataSetComplete ==
    /\ "ADV_DATA_SET" \in pending
    /\ adv_config_done' = ClearFlag(adv_config_done, ADV_CONFIG_FLAG)
    /\ out' = GapConfigCalls(adv_config_done')
    /\ IF Count(out', "start_advertising") > 0
       THEN /\ adv' = StartAdvertising(adv)
            /\ pending' = (pending \ {"ADV_DATA_SET"}) \cup {"ADV_START"}
       ELSE /\ adv' = adv
            /\ pending' = pending \ {"ADV_DATA_SET"}
    /\ completed' = completed \cup {"ADV_DATA_SET"}
    /\ lastEvt' = Ev("ADV_DATA_SET")
    /\ UNCHANGED <<sensor_ready, notify_enabled, g_gatts_if, g_conn_id,
                   g_service_handle, g_char_handle, g_cccd_handle, sensor_value, led, pixel,
                   taskVars, now, link, attrs, attr_value, reqs, setupFailed>>

\* ESP_GAP_BLE_ADV_START_COMPLETE_EVT: logged only.
GapAdvStartComplete(status) ==
    /\ "ADV_START" \in pending
    /\ pending' = pending \ {"ADV_START"}
    /\ adv' = IF status = "ESP_BT_STATUS_SUCCESS" THEN "on" ELSE "idle"
    /\ out' = <<>>
    /\ lastEvt' = Ev("ADV_START")
    /\ UNCHANGED <<progVars, sensor_value, led, pixel, taskVars, now, link, attrs,
                   attr_value, reqs, completed, setupFailed>>

\* -------------------- GATTS callback: setup --------------------
\* Statuses the stack can report for a completion: success only when what
\* the request refers to exists in the stack.
StatusesIf(possible) == IF possible THEN Statuses ELSE {"ESP_GATT_ERROR"}

\* Variant: advertising is started right after its configuration has been
\* requested.
RegCalls_StartsAdv(gatts_if, ret) ==
    IF ret # "ESP_OK" THEN <<Call("config_adv_data")>>
    ELSE <<Call("config_adv_data"), Call("start_advertising"),
           [api |-> "create_service", gatts_if |-> gatts_if]>>

\* Calls of the ESP_GATTS_REG_EVT branch: ret is what
\* esp_ble_gap_config_adv_data returned.
RegCalls(gatts_if, ret) ==
    IF ret # "ESP_OK" THEN <<Call("config_adv_data")>>
    ELSE <<Call("config_adv_data"), [api |-> "create_service", gatts_if |-> gatts_if]>>

GattsReg(status, gatts_if, ret) ==
    /\ "REG" \in pending
    /\ g_gatts_if' = gatts_if
    /\ adv_config_done' = ADV_CONFIG_FLAG
    /\ out' = RegCalls(gatts_if, ret)
    /\ pending' = (pending \ {"REG"})
                  \cup (IF ret = "ESP_OK" THEN {"ADV_DATA_SET"} ELSE {})
                  \cup (IF Count(out', "create_service") > 0 THEN {"CREATE"} ELSE {})
    /\ reqs' = reqs \o ApiNames(out')
    /\ completed' = completed \cup {"REG"}
    /\ setupFailed' = (setupFailed \/ status # "ESP_GATT_OK" \/ ret # "ESP_OK")
    /\ lastEvt' = Ev("REG")
    /\ UNCHANGED <<sensor_ready, notify_enabled, g_conn_id, g_service_handle,
                   g_char_handle, g_cccd_handle, sensor_value, led, pixel, taskVars,
                   now, link, adv, attrs, attr_value>>

\* Variant: the descriptor is added together with the characteristic.
CreateCalls_WithDescr(service_handle) ==
    << [api |-> "start_service", service_handle |-> service_handle],
       [api |-> "add_char", service_handle |-> service_handle],
       [api |-> "add_char_descr", service_handle |-> service_handle] >>

\* Calls of the ESP_GATTS_CREATE_EVT branch: the status of the completion
\* and the result of esp_ble_gatts_add_char are logged only.
CreateCalls(service_handle) ==
    << [api |-> "start_service", service_handle |-> service_handle],
       [api |-> "add_char", service_handle |-> service_handle] >>

GattsCreate(status, service_handle, ret) ==
    /\ "CREATE" \in pending
    /\ g_service_handle' = service_handle
    /\ out' = CreateCalls(g_service_handle')
    /\ pending' = (pending \ {"CREATE"})
                  \cup (IF Count(out', "start_service") > 0 THEN {"START"} ELSE {})
                  \cup (IF Count(out', "add_char") > 0 /\ ret = "ESP_OK" THEN {"ADD_CHAR"} ELSE {})
                  \cup (IF Count(out', "add_char_descr") > 0 THEN {"ADD_DESCR"} ELSE {})
    /\ attrs' = IF status = "ESP_GATT_OK" THEN attrs \cup {service_handle} ELSE attrs
    /\ reqs' = reqs \o ApiNames(out')
    /\ completed' = completed \cup {"CREATE"}
    /\ setupFailed' = (setupFailed \/ status # "ESP_GATT_OK")
    /\ lastEvt' = Ev("CREATE")
    /\ UNCHANGED <<adv_config_done, sensor_ready, notify_enabled, g_gatts_if, g_conn_id,
                   g_char_handle, g_cccd_handle, sensor_value, led, pixel, taskVars,
                   now, link, adv, attr_value>>

\* ESP_GATTS_START_EVT has no branch of its own: the default branch.
GattsStart ==
    /\ "START" \in pending
    /\ pending' = pending \ {"START"}
    /\ completed' = completed \cup {"START"}
    /\ out' = <<>>
    /\ lastEvt' = Ev("START")
    /\ UNCHANGED <<progVars, sensor_value, led, pixel, taskVars, now, link, adv, attrs,
                   attr_value, reqs, setupFailed>>

\* Calls of the ESP_GATTS_ADD_CHAR_EVT branch.
AddCharCalls(service_handle) ==
    << [api |-> "add_char_descr", service_handle |-> service_handle] >>

GattsAddChar(status, attr_handle, ret) ==
    /\ "ADD_CHAR" \in pending
    /\ g_char_handle' = attr_handle
    /\ out' = AddCharCalls(g_service_handle)
    /\ pending' = (pending \ {"ADD_CHAR"})
                  \cup (IF Count(out', "add_char_descr") > 0 /\ ret = "ESP_OK" THEN {"ADD_DESCR"} ELSE {})
    /\ attrs' = IF status = "ESP_GATT_OK" THEN attrs \cup {attr_handle} ELSE attrs
    /\ reqs' = reqs \o ApiNames(out')
    /\ completed' = completed \cup {"ADD_CHAR"}
    /\ setupFailed' = (setupFailed \/ status # "ESP_GATT_OK")
    /\ lastEvt' = Ev("ADD_CHAR")
    /\ UNCHANGED <<adv_config_done, sensor_ready, notify_enabled, g_gatts_if, g_conn_id,
                   g_service_handle, g_cccd_handle, sensor_value, led, pixel, taskVars,
                   now, link, adv, attr_value>>

\* sensor_ready after ESP_GATTS_ADD_CHAR_DESCR_EVT (the status is logged only).
DescrReady(status, cur) == TRUE

GattsAddCharDescr(status, attr_handle) ==
    /\ "ADD_DESCR" \in pending
    /\ g_cccd_handle' = attr_handle
    /\ sensor_ready' = DescrReady(status, sensor_ready)
    /\ out' = <<>>
    /\ pending' = pending \ {"ADD_DESCR"}
    /\ attrs' = IF status = "ESP_GATT_OK" THEN attrs \cup {attr_handle} ELSE attrs
    /\ completed' = completed \cup {"ADD_DESCR"}
    /\ setupFailed' = (setupFailed \/ status # "ESP_GATT_OK")
    /\ lastEvt' = Ev("ADD_DESCR")
    /\ UNCHANGED <<adv_config_done, notify_enabled, g_gatts_if, g_conn_id,
                   g_service_handle, g_char_handle, sensor_value, led, pixel, taskVars,
                   now, link, adv, attr_value, reqs>>

\* The setup completions the stack can deliver, with what they carry.
SetupEvent ==
    \/ \E ret \in Rets :
          \/ GattsReg("ESP_GATT_OK", Stack.gatts_if, ret)
          \/ \E i \in InvalidIfs : GattsReg("ESP_GATT_ERROR", i, ret)
    \/ \E ret \in Rets, status \in StatusesIf(g_gatts_if = Stack.gatts_if) :
          GattsCreate(status, IF status = "ESP_GATT_OK" THEN Stack.service_handle ELSE 0, ret)
    \/ GattsStart
    \/ \E ret \in Rets, status \in StatusesIf(g_service_handle \in attrs) :
          GattsAddChar(status, IF status = "ESP_GATT_OK" THEN Stack.char_handle ELSE 0, ret)
    \/ \E status \in StatusesIf(g_char_handle \in attrs) :
          GattsAddCharDescr(status, IF status = "ESP_GATT_OK" THEN Stack.descr_handle ELSE 0)

\* -------------------- GATTS callback: connection and subscription --------------------
\* The application is registered with the stack: the stack delivers
\* connection, read and write events only to a registered application.
Registered == "REG" \in completed /\ g_gatts_if = Stack.gatts_if

\* Variant: the connect branch leaves notify_enabled as it found it.
ConnectNotify_Keep(cur) == cur

\* notify_enabled after ESP_GATTS_CONNECT_EVT
ConnectNotify(cur) == FALSE

\* A central connects to an advertising device, which stops advertising.
\* A connect event delivered while a connection exists replaces it.
GattsConnect(conn_id) ==
    /\ Registered
    /\ \/ link = NoLink /\ adv = "on"
       \/ link # NoLink /\ conn_id # link
    /\ g_conn_id' = conn_id
    /\ notify_enabled' = ConnectNotify(notify_enabled)
    /\ link' = conn_id
    /\ adv' = "idle"
    /\ out' = <<>>
    /\ lastEvt' = Ev("CONNECT")
    /\ UNCHANGED <<adv_config_done, sensor_ready, g_gatts_if, g_service_handle,
                   g_char_handle, g_cccd_handle, sensor_value, led, pixel, taskVars,
                   now, attr_value, setupVars>>

\* g_conn_id after ESP_GATTS_DISCONNECT_EVT: the branch does not assign it.
DisconnectConnId(cur) == cur

\* Variant: the disconnect branch does not restart advertising.
DisconnectCalls_NoRestart(mask) == <<>>

\* Calls of the ESP_GATTS_DISCONNECT_EVT branch.
DisconnectCalls(mask) == <<Call("start_advertising")>>

\* Variant: the disconnect branch also takes the service out of the ready
\* state.
GattsDisconnect_ResetsReady ==
    /\ link # NoLink
    /\ notify_enabled' = FALSE
    /\ sensor_ready' = FALSE
    /\ out' = <<Call("start_advertising")>>
    /\ adv' = StartAdvertising(adv)
    /\ pending' = pending \cup {"ADV_START"}
    /\ pixel' = "off"
    /\ led' = "off"
    /\ link' = NoLink
    /\ lastEvt' = Ev("DISCONNECT")
    /\ UNCHANGED <<adv_config_done, g_gatts_if, g_conn_id, g_service_handle,
                   g_char_handle, g_cccd_handle, sensor_value, taskVars,
                   now, attrs, attr_value, reqs, completed, setupFailed>>

GattsDisconnect ==
    /\ link # NoLink
    /\ notify_enabled' = FALSE
    /\ g_conn_id' = DisconnectConnId(g_conn_id)
    /\ out' = DisconnectCalls(adv_config_done)
    /\ IF Count(out', "start_advertising") > 0
       THEN /\ adv' = StartAdvertising(adv)
            /\ pending' = pending \cup {"ADV_START"}
       ELSE UNCHANGED <<adv, pending>>
    /\ pixel' = "off"
    /\ led' = "off"
    /\ link' = NoLink
    /\ lastEvt' = Ev("DISCONNECT")
    /\ UNCHANGED <<adv_config_done, sensor_ready, g_gatts_if, g_service_handle,
                   g_char_handle, g_cccd_handle, sensor_value, taskVars,
                   now, attrs, attr_value, reqs, completed, setupFailed>>

\* (uint16_t)((value[1] << 8) | value[0])
CccdValue(value) == (value[2] * U8 + value[1]) % Limb

\* Variant: only the low byte of the written value is looked at.
WriteNotify_LowByte(handle, value, cur) ==
    IF handle = g_cccd_handle /\ Len(value) = 2
    THEN IF value[1] = 1 THEN TRUE
         ELSE IF value[1] = 0 THEN FALSE
         ELSE cur
    ELSE cur

\* Variant: a two-byte write to any attribute is taken as a CCCD write.
WriteNotify_AnyHandle(handle, value, cur) ==
    IF Len(value) = 2
    THEN IF CccdValue(value) = 1 THEN TRUE
         ELSE IF CccdValue(value) = 0 THEN FALSE
         ELSE cur
    ELSE cur

\* notify_enabled after ESP_GATTS_WRITE_EVT
WriteNotify(handle, value, cur) ==
    IF handle = g_cccd_handle /\ Len(value) = 2
    THEN IF CccdValue(value) = 1 THEN TRUE
         ELSE IF CccdValue(value) = 0 THEN FALSE
         ELSE cur
    ELSE cur

\* Variant: the response is sent whether or not one is needed.
WriteRsp_Always(gatts_if, conn_id, trans_id, need_rsp) ==
    << [api |-> "send_response", gatts_if |-> gatts_if, conn_id |-> conn_id,
        trans_id |-> trans_id, status |-> "ESP_GATT_OK", rsp |-> <<>>] >>

\* write_rsp_if_needed
WriteRsp(gatts_if, conn_id, trans_id, need_rsp) ==
    IF need_rsp
    THEN << [api |-> "send_response", gatts_if |-> gatts_if, conn_id |-> conn_id,
             trans_id |-> trans_id, status |-> "ESP_GATT_OK", rsp |-> <<>>] >>
    ELSE <<>>

\* Values a peer may write: 0x0001, 0x0000, 0x0002, 0x0101, one byte, three bytes.
WriteValues == { <<1, 0>>, <<0, 0>>, <<2, 0>>, <<1, 1>>, <<1>>, <<0>>, <<1, 0, 0>> }
WriteEvts == [handle : {Stack.char_handle, Stack.descr_handle}, value : WriteValues,
              need_rsp : BOOLEAN, trans_id : TransIds]

GattsWrite(e) ==
    /\ Registered
    /\ link # NoLink
    /\ e.handle \in attrs
    /\ notify_enabled' = WriteNotify(e.handle, e.value, notify_enabled)
    /\ out' = WriteRsp(Stack.gatts_if, link, e.trans_id, e.need_rsp)
    /\ lastEvt' = EvArg("WRITE", <<e>>)
    /\ UNCHANGED <<adv_config_done, sensor_ready, g_gatts_if, g_conn_id, g_service_handle,
                   g_char_handle, g_cccd_handle, sensor_value, led, pixel, taskVars,
                   now, link, adv, attr_value, setupVars>>

\* Response of the ESP_GATTS_READ_EVT branch: the bytes of sensor_value.
ReadRsp(gatts_if, conn_id, trans_id, handle) ==
    << [api |-> "send_response", gatts_if |-> gatts_if, conn_id |-> conn_id,
        trans_id |-> trans_id, status |-> "ESP_GATT_OK",
        rsp |-> << [handle |-> handle, len |-> SENSOR_PAYLOAD_LEN, value |-> sensor_value] >>] >>

GattsRead(handle, trans_id) ==
    /\ Registered
    /\ link # NoLink
    /\ handle \in attrs
    /\ out' = ReadRsp(Stack.gatts_if, link, trans_id, handle)
    /\ lastEvt' = Ev("READ")
    /\ UNCHANGED <<progVars, sensor_value, led, pixel, taskVars, now, link, adv,
                   attr_value, setupVars>>

\* -------------------- Periodic notify task --------------------
\* Variant: the gate does not look at notify_enabled.
GateSkips_NoNotify == ~sensor_ready \/ g_gatts_if = ESP_GATT_IF_NONE

\* The condition of the continue at the head of the loop.
GateSkips == ~sensor_ready \/ ~notify_enabled \/ g_gatts_if = ESP_GATT_IF_NONE

\* Variant: the next wake time is one period after the instant the delay is
\* called (a relative delay).
NextWake_Relative(lw, n) == n + SENSOR_PERIOD_MS

\* *pxPreviousWakeTime after vTaskDelayUntil called at instant n: the
\* previous wake time plus the period.
NextWake(lw, n) == lw + SENSOR_PERIOD_MS

\* vTaskDelayUntil returns at last_wake + period (at once when that instant
\* has passed) and the gate is evaluated. The gate's three loads are taken
\* as one step: sensor_ready only ever goes from false to true and
\* g_gatts_if is assigned once, before sensor_ready can be true, so loads
\* spread over several instants pass or skip exactly as one evaluation at
\* the instant notify_enabled is loaded. What the handlers do between the
\* gate and the send is interleaved step by step below.
TaskTick ==
    /\ pc = "delay"
    /\ ticks < MaxTicks
    /\ ticks' = ticks + 1
    /\ last_wake' = NextWake(last_wake, now)
    /\ now' = IF now < last_wake' THEN last_wake' ELSE now
    /\ pc' = IF GateSkips THEN "delay" ELSE "time"
    /\ out' = <<>>
    /\ UNCHANGED <<progVars, sensor_value, led, pixel, seq, t_us, err, wi, attempts, seq0,
                   link, adv, attr_value, lastEvt, setupVars>>

TaskTime ==
    /\ pc = "time"
    /\ t_us' = TimeUs(now)
    /\ wi' = 0
    /\ pc' = "fill"
    /\ out' = <<>>
    /\ UNCHANGED <<progVars, sensor_value, led, pixel, seq, last_wake, err, ticks, attempts, seq0,
                   now, link, adv, attr_value, lastEvt, setupVars>>

\* One store sensor_value[wi] = (uint8_t)(...)
TaskFill ==
    /\ pc = "fill"
    /\ sensor_value' = [sensor_value EXCEPT ![wi + 1] = PayloadByte(wi, seq, t_us)]
    /\ wi' = wi + 1
    /\ pc' = IF wi' = SENSOR_PAYLOAD_LEN THEN "setattr" ELSE "fill"
    /\ out' = <<>>
    /\ UNCHANGED <<progVars, led, pixel, seq, last_wake, t_us, err, ticks, attempts, seq0,
                   now, link, adv, attr_value, lastEvt, setupVars>>

TaskSetAttr ==
    /\ pc = "setattr"
    /\ attr_value' = sensor_value
    /\ out' = << [api |-> "set_attr_value", handle |-> g_char_handle,
                  len |-> SENSOR_PAYLOAD_LEN, value |-> sensor_value] >>
    /\ pc' = "send"
    /\ UNCHANGED <<progVars, sensor_value, led, pixel, seq, last_wake, t_us, err, wi, ticks,
                   attempts, seq0, now, link, adv, lastEvt, setupVars>>

\* What esp_ble_gatts_send_indicate can return: it fails when the
\* connection it is given does not exist, and may fail otherwise
\* (congestion).
SendResults == IF link # NoLink /\ link = g_conn_id /\ g_gatts_if = Stack.gatts_if
               THEN Rets ELSE {"ESP_FAIL"}

TaskSend(e) ==
    /\ pc = "send"
    /\ e \in SendResults
    /\ out' = << [api |-> "send_indicate", gatts_if |-> g_gatts_if, conn_id |-> g_conn_id,
                  handle |-> g_char_handle, len |-> SENSOR_PAYLOAD_LEN,
                  value |-> sensor_value, confirm |-> FALSE] >>
    /\ err' = e
    /\ attempts' = attempts + 1
    /\ pc' = IF e = "ESP_OK" THEN "led_on" ELSE "inc"
    /\ UNCHANGED <<progVars, sensor_value, led, pixel, seq, last_wake, t_us, wi, ticks, seq0,
                   now, link, adv, attr_value, lastEvt, setupVars>>

\* led_set_green(true): led_strip_set_pixel writes the pixel buffer ...
TaskLedOn ==
    /\ pc = "led_on"
    /\ pixel' = "green"
    /\ pc' = "led_on_refresh"
    /\ out' = <<>>
    /\ UNCHANGED <<progVars, sensor_value, led, seq, last_wake, t_us, err, wi, ticks, attempts,
                   seq0, now, link, adv, attr_value, lastEvt, setupVars>>

\* ... and led_strip_refresh transmits the buffer as it is by then.
TaskLedOnRefresh ==
    /\ pc = "led_on_refresh"
    /\ led' = pixel
    /\ pc' = "pulse"
    /\ out' = <<>>
    /\ UNCHANGED <<progVars, sensor_value, pixel, seq, last_wake, t_us, err, wi, ticks, attempts,
                   seq0, now, link, adv, attr_value, lastEvt, setupVars>>

\* vTaskDelay(pdMS_TO_TICKS(LED_PULSE_MS))
TaskPulse ==
    /\ pc = "pulse"
    /\ now' = now + LED_PULSE_MS
    /\ pc' = "led_off"
    /\ out' = <<>>
    /\ UNCHANGED <<progVars, sensor_value, led, pixel, seq, last_wake, t_us, err, wi, ticks,
                   attempts, seq0, link, adv, attr_value, lastEvt, setupVars>>

\* led_set_green(false): led_strip_clear zeroes the pixel buffer ...
TaskLedOff ==
    /\ pc = "led_off"
    /\ pixel' = "off"
    /\ pc' = "led_off_refresh"
    /\ out' = <<>>
    /\ UNCHANGED <<progVars, sensor_value, led, seq, last_wake, t_us, err, wi, ticks, attempts,
                   seq0, now, link, adv, attr_value, lastEvt, setupVars>>

\* ... and led_strip_refresh transmits it.
TaskLedOffRefresh ==
    /\ pc = "led_off_refresh"
    /\ led' = pixel
    /\ pc' = "inc"
    /\ out' = <<>>
    /\ UNCHANGED <<progVars, sensor_value, pixel, seq, last_wake, t_us, err, wi, ticks, attempts,
                   seq0, now, link, adv, attr_value, lastEvt, setupVars>>

\* Variant: the counter advances only after a successful send.
SeqAfterAttempt_OnlyOk(s, e) == IF e = "ESP_OK" THEN U32Inc(s) ELSE s

\* Variant: the counter advances by two at the end of an attempt.
SeqAfterAttempt_Twice(s, e) == U32Inc(U32Inc(s))

\* seq after the seq++ that ends an attempt whose send returned e
SeqAfterAttempt(s, e) == U32Inc(s)

TaskInc ==
    /\ pc = "inc"
    /\ seq' = SeqAfterAttempt(seq, err)
    /\ pc' = "delay"
    /\ out' = <<>>
    /\ UNCHANGED <<progVars, sensor_value, led, pixel, last_wake, t_us, err, wi, ticks, attempts,
                   seq0, now, link, adv, attr_value, lastEvt, setupVars>>

\* -------------------- Specifications --------------------
Next ==
    \/ SetupEvent
    \/ GapAdvDataSetComplete
    \/ \E status \in BtStatuses : GapAdvStartComplete(status)
    \/ \E c \in ConnIds : GattsConnect(c)
    \/ GattsDisconnect
    \/ \E e \in WriteEvts : GattsWrite(e)
    \/ \E h \in {Stack.char_handle, Stack.descr_handle}, t \in TransIds : GattsRead(h, t)
    \/ TaskTick
    \/ TaskTime
    \/ TaskFill
    \/ TaskSetAttr
    \/ \E e \in Rets : TaskSend(e)
    \/ TaskLedOn
    \/ TaskLedOnRefresh
    \/ TaskPulse
    \/ TaskLedOff
    \/ TaskLedOffRefresh
    \/ TaskInc

Spec == Init /\ [][Next]_vars

\* The same program observed from the state the task is in after 2^32 - 2
\* attempts, so that the wrap of the counter is within reach.
InitWrap ==
    /\ InitCommon
    /\ seq \in {U32Zero, U32NearWrap}
    /\ seq0 = seq

SpecWrap == InitWrap /\ [][Next]_vars

\* The steps of sensor_notify_task, and the program with the task scheduled
\* whenever it can run: it is a FreeRTOS task that is ready except during
\* its two delays, which end.
TaskNext ==
    \/ TaskTick \/ TaskTime \/ TaskFill \/ TaskSetAttr
    \/ \E e \in Rets : TaskSend(e)
    \/ TaskLedOn \/ TaskLedOnRefresh \/ TaskPulse
    \/ TaskLedOff \/ TaskLedOffRefresh \/ TaskInc

SpecFair == Init /\ [][Next]_vars /\ WF_vars(TaskNext)

\* The payload build on its own: the task has passed the gate of a tick and
\* read the clock, with any counter value and any uptime, and stores the
\* twelve bytes over what the buffer held, then hands them to the stack.
\* Limb values chosen for their bytes: 00 00, 00 01, 00 FF, 01 00, 02 01,
\* 80 7F, FF FF.
LimbSamples == {0, 1, 255, 256, 513, 32895, 65535}
SeqSamples == {<<a, b>> : a, b \in LimbSamples}
TimeSamples == {<<a, b, c, d>> : a, b \in {0, 513, 65535}, c, d \in {0, 258, 65535}}
StaleValues == {ZeroValue, [i \in 1..SENSOR_PAYLOAD_LEN |-> 170 + i]}

InitCodec ==
    /\ adv_config_done = 0
    /\ sensor_ready = TRUE
    /\ notify_enabled = TRUE
    /\ g_gatts_if = Stack.gatts_if
    /\ g_conn_id = 0
    /\ g_service_handle = Stack.service_handle
    /\ g_char_handle = Stack.char_handle
    /\ g_cccd_handle = Stack.descr_handle
    /\ sensor_value \in StaleValues
    /\ led = "off"
    /\ pixel = "off"
    /\ pc = "fill"
    /\ seq \in SeqSamples
    /\ last_wake = SENSOR_PERIOD_MS
    /\ t_us \in TimeSamples
    /\ err = "ESP_OK"
    /\ wi = 0
    /\ now = SENSOR_PERIOD_MS
    /\ link = 0
    /\ adv = "idle"
    /\ pending = {}
    /\ attrs = {Stack.service_handle, Stack.char_handle, Stack.descr_handle}
    /\ attr_value = sensor_value
    /\ out = <<>>
    /\ lastEvt = [kind |-> "none", arg |-> <<>>, was_notify |-> FALSE, was_link |-> NoLink]
    /\ reqs = <<"app_register", "config_adv_data", "create_service", "start_service",
                "add_char", "add_char_descr">>
    /\ completed = {"REG", "ADV_DATA_SET", "CREATE", "START", "ADD_CHAR", "ADD_DESCR"}
    /\ setupFailed = FALSE
    /\ ticks = 1
    /\ attempts = 0
    /\ seq0 = seq

NextCodec == TaskFill \/ TaskSetAttr

SpecCodec == InitCodec /\ [][NextCodec]_vars

\* -------------------- Properties --------------------
Range(f) == {f[i] : i \in 1..Len(f)}
SendIssued == Len(out) > 0 /\ out[1].api = "send_indicate"
\* The task has sent and not yet executed seq++.
AfterSend == pc \in {"led_on", "led_on_refresh", "pulse", "led_off", "led_off_refresh", "inc"}

\* C1: a tick taken while setup-ready is false, or notifications-enabled is
\* false, or no connection exists, is skipped entirely: the task is back in
\* its delay, no call was made, and the value buffer, the sequence counter
\* and the LED are as before.
C1_GatedTickIsSkipped ==
    [][ (ticks' = ticks + 1 /\ (~sensor_ready \/ ~notify_enabled \/ link = NoLink))
        => /\ pc' = "delay"
           /\ out' = <<>>
           /\ attempts' = attempts
           /\ sensor_value' = sensor_value
           /\ seq' = seq
           /\ led' = led ]_vars

\* A tick was skipped after an earlier attempt, with setup complete and the
\* peer gone.
C1_Witness ==
    /\ pc = "delay" /\ attempts >= 1 /\ ticks = attempts + 1
    /\ sensor_ready /\ ~notify_enabled /\ link = NoLink

\* C2: whenever a notification send is issued, notifications-enabled is
\* true and the connection the send is addressed to exists.
C2_SendOnlyWhileSubscribed ==
    SendIssued => (notify_enabled /\ link # NoLink /\ out[1].conn_id = link)

\* C3: once a connect event is handled the current connection identifier
\* is the event's and notifications-enabled is false, whatever was before.
C3_ConnectResetsSubscription ==
    lastEvt.kind = "CONNECT" => (g_conn_id = link /\ link # NoLink /\ ~notify_enabled)

\* A connect event was handled while a subscribed connection existed.
C3_Witness ==
    /\ lastEvt.kind = "CONNECT" /\ lastEvt.was_notify /\ lastEvt.was_link # NoLink
    /\ g_conn_id = link /\ g_conn_id # lastEvt.was_link

\* C4: once a disconnect event is handled the current connection
\* identifier is "none" and notifications-enabled is false.
C4_DisconnectClearsConnection ==
    lastEvt.kind = "DISCONNECT" => (g_conn_id = CONN_ID_NONE /\ ~notify_enabled)

\* C5: handling a disconnect event issues exactly one request to start
\* advertising, whatever the pending-configuration mask, and leaves the
\* stack starting to advertise.
C5_DisconnectRestartsAdvertising ==
    [][ (link # NoLink /\ link' = NoLink)
        => /\ Len(out') = 1
           /\ Count(out', "start_advertising") = 1
           /\ adv' # "idle"
           /\ "ADV_START" \in pending' ]_vars

\* A subscribed peer disconnected and advertising was requested again.
C5_Witness ==
    /\ lastEvt.kind = "DISCONNECT" /\ lastEvt.was_notify
    /\ out = <<Call("start_advertising")>> /\ adv = "starting" /\ link = NoLink

\* What a write event is to do to notifications-enabled: only two bytes
\* written to the CCCD count, 01 00 enabling and 00 00 disabling.
ExpectedNotify(e, cur) ==
    IF e.handle = Stack.descr_handle /\ Len(e.value) = 2
    THEN IF e.value = <<1, 0>> THEN TRUE
         ELSE IF e.value = <<0, 0>> THEN FALSE
         ELSE cur
    ELSE cur

\* A step of the event handlers (every step of the task moves the task).
HandlerStep == UNCHANGED taskVars

\* C6: a write event sets notifications-enabled as ExpectedNotify says and
\* leaves the rest of the subscription state unchanged.
C6_WriteSetsSubscription ==
    [][ (HandlerStep /\ lastEvt'.kind = "WRITE")
        => /\ notify_enabled' = ExpectedNotify(lastEvt'.arg[1], notify_enabled)
           /\ UNCHANGED <<g_conn_id, sensor_ready, g_gatts_if, g_cccd_handle>> ]_vars

\* A write turned an enabled subscription off.
C6_Witness ==
    /\ lastEvt.kind = "WRITE" /\ lastEvt.was_notify /\ ~notify_enabled
    /\ lastEvt.arg[1].handle = Stack.descr_handle /\ lastEvt.arg[1].value = <<0, 0>>

\* C7: a write event marked response-required is answered by exactly one
\* response, with success status and no payload, for its transaction; any
\* other write event is answered by nothing.
C7_WriteResponse ==
    [][ (HandlerStep /\ lastEvt'.kind = "WRITE")
        => IF lastEvt'.arg[1].need_rsp
           THEN /\ Len(out') = 1
                /\ out'[1].api = "send_response"
                /\ out'[1].status = "ESP_GATT_OK"
                /\ out'[1].rsp = <<>>
                /\ out'[1].trans_id = lastEvt'.arg[1].trans_id
                /\ out'[1].conn_id = link
           ELSE out' = <<>> ]_vars

\* A write was answered with an empty success response.
C7_Witness ==
    /\ lastEvt.kind = "WRITE" /\ Len(out) = 1 /\ out[1].api = "send_response"
    /\ out[1].rsp = <<>> /\ out[1].status = "ESP_GATT_OK"
    /\ lastEvt.arg[1].need_rsp /\ Len(lastEvt.arg[1].value) = 3

\* C8: the sequence field of the payload in the value buffer and in the
\* send is the counter's value before the attempt; the counter has advanced
\* by exactly one (modulo 2^32) per attempt once the tick has ended, whether
\* the send succeeded or failed; and there is at most one attempt per tick.
C8_SequencePerAttempt ==
    /\ (pc \in {"setattr", "send"} \/ AfterSend)
          => DecodeSeq(sensor_value) = seq
    /\ SendIssued => (out[1].value = sensor_value /\ DecodeSeq(out[1].value) = seq)
    /\ seq = U32Add(seq0, IF AfterSend THEN attempts - 1 ELSE attempts)
    /\ attempts <= ticks

\* The counter wrapped to zero at the end of a tick whose send failed.
C8_Witness ==
    /\ seq0 = U32NearWrap /\ seq = U32Zero /\ attempts = 2
    /\ pc = "delay" /\ err = "ESP_FAIL"

\* The order of the setup requests.
SetupOrder == <<"app_register", "config_adv_data", "create_service", "start_service",
                "add_char", "add_char_descr">>

\* C9 as stated: no setup request is issued before the completion of the
\* step that precedes it has been handled.
C9_RequestAfterPrecedingCompletion ==
    /\ "config_adv_data" \in Range(reqs) => "REG" \in completed
    /\ "create_service" \in Range(reqs) => "ADV_DATA_SET" \in completed
    /\ "start_service" \in Range(reqs) => "CREATE" \in completed
    /\ "add_char" \in Range(reqs) => {"CREATE", "START"} \subseteq completed
    /\ "add_char_descr" \in Range(reqs) => "ADD_CHAR" \in completed

\* C9 as amended: the requests are issued in the setup order, each at most
\* once; advertising configuration and service creation after the
\* registration completion, service start and characteristic add after the
\* service-creation completion, descriptor add after the
\* characteristic-add completion.
C9_RequestAfterHandledCompletion ==
    /\ Len(reqs) <= Len(SetupOrder)
    /\ reqs = SubSeq(SetupOrder, 1, Len(reqs))
    /\ "config_adv_data" \in Range(reqs) => "REG" \in completed
    /\ "create_service" \in Range(reqs) => "REG" \in completed
    /\ "start_service" \in Range(reqs) => "CREATE" \in completed
    /\ "add_char" \in Range(reqs) => "CREATE" \in completed
    /\ "add_char_descr" \in Range(reqs) => "ADD_CHAR" \in completed

\* The characteristic was added, and its completion handled, before the
\* service-start completion was handled.
C9_Witness ==
    /\ "add_char_descr" \in Range(reqs) /\ "ADD_CHAR" \in completed
    /\ "START" \notin completed /\ "ADV_DATA_SET" \notin completed

\* C10: once a setup completion has reported a failure, or the advertising
\* configuration request was rejected, setup-ready is not true and no
\* notification is sent.
C10_FailureHaltsSetup == setupFailed => (~sensor_ready /\ attempts = 0)

\* C11: setup-ready starts false, is true only once the descriptor-add
\* completion has been handled, turns true only in the step that handles
\* that completion, and is never set back to false by any step.
C11_ReadyIsOneWay ==
    /\ [](sensor_ready => "ADD_DESCR" \in completed)
    /\ [][ /\ sensor_ready => sensor_ready'
           /\ (~sensor_ready /\ sensor_ready')
                 => (HandlerStep /\ lastEvt'.kind = "ADD_DESCR"
                     /\ "ADD_DESCR" \in pending) ]_vars

\* Setup-ready is still true after a subscription, a send attempt and the
\* disconnect that followed.
C11_Witness ==
    /\ sensor_ready /\ lastEvt.kind = "DISCONNECT" /\ lastEvt.was_notify
    /\ attempts >= 1 /\ pc = "delay"

\* Bit flag (a power of two) of a mask.
Bit(mask, flag) == (mask \div flag) % 2

\* C12: a step that requests the start of advertising and is not the
\* handling of a disconnect is the handling of the advertising-data
\* completion, and any step that requests it leaves the mask empty, with
\* the advertising configuration requested and completed and no
\* configuration completion outstanding; the completion clears the
\* advertising bit and no other, and so does each clearing on every value
\* of the two-bit mask.
C12_AdvertisingAfterConfiguration ==
    /\ [][ Count(out', "start_advertising") > 0
           => /\ HandlerStep
              /\ Count(out', "start_advertising") = 1
              /\ adv_config_done' = 0
              /\ "config_adv_data" \in Range(reqs')
              /\ "ADV_DATA_SET" \in completed'
              /\ "ADV_DATA_SET" \notin pending'
              /\ lastEvt'.kind \in {"ADV_DATA_SET", "DISCONNECT"}
              /\ lastEvt'.kind = "ADV_DATA_SET"
                    => ("ADV_DATA_SET" \in pending /\ adv_config_done = ADV_CONFIG_FLAG) ]_vars
    /\ [][ (HandlerStep /\ lastEvt'.kind = "ADV_DATA_SET")
           => /\ Bit(adv_config_done', ADV_CONFIG_FLAG) = 0
              /\ Bit(adv_config_done', SCAN_RSP_CONFIG_FLAG)
                    = Bit(adv_config_done, SCAN_RSP_CONFIG_FLAG)
              /\ (Count(out', "start_advertising") = 1) = (adv_config_done' = 0) ]_vars
    /\ [](\A mask \in 0..3 :
            \A flag \in {ADV_CONFIG_FLAG, SCAN_RSP_CONFIG_FLAG} :
               /\ Bit(ClearFlag(mask, flag), flag) = 0
               /\ \A other \in {ADV_CONFIG_FLAG, SCAN_RSP_CONFIG_FLAG} \ {flag} :
                     Bit(ClearFlag(mask, flag), other) = Bit(mask, other)
               /\ (GapConfigCalls(ClearFlag(mask, flag)) # <<>>)
                     = (mask \in {0, flag}))

\* The advertising-data completion emptied the mask and advertising was
\* requested, while the service was still being created.
C12_Witness ==
    /\ lastEvt.kind = "ADV_DATA_SET" /\ out = <<Call("start_advertising")>>
    /\ adv_config_done = 0 /\ adv = "starting" /\ "CREATE" \in pending

\* The latest step answered a read request.
ReadIssued == Len(out) = 1 /\ out[1].api = "send_response" /\ out[1].rsp # <<>>
\* The payload a tick with counter s and timestamp t writes, in full.
FullPayload(s, t) == [i \in 1..SENSOR_PAYLOAD_LEN |-> PayloadByte(i - 1, s, t)]
\* The task has gated a tick in and has not finished storing its payload.
Rewriting == pc = "fill"
\* The task holds a fully stored payload of the tick in progress.
PayloadStored == pc \in {"setattr", "send"} \/ AfterSend

\* C13: the response to a read request has success status and carries the
\* 12 bytes of the value buffer, and these are the payload of the most
\* recent tick that attempted a send (the one the stack was last handed, or
\* the fully stored one of the tick in progress), all zeros before the
\* first.
C13_ReadReturnsLatestPayload ==
    ReadIssued
    => /\ out[1].status = "ESP_GATT_OK"
       /\ out[1].rsp[1].len = SENSOR_PAYLOAD_LEN
       /\ out[1].rsp[1].value = sensor_value
       /\ out[1].rsp[1].value = IF PayloadStored THEN FullPayload(seq, t_us) ELSE attr_value
       /\ (attempts = 0 /\ ~PayloadStored) => out[1].rsp[1].value = ZeroValue

\* C14: the 12 bytes a read returns are in full the payload of the previous
\* attempt or the payload of the attempt in progress.
C14_ReadIsNeverTorn ==
    ReadIssued
    => \/ out[1].rsp[1].value = attr_value
       \/ (Rewriting \/ PayloadStored) /\ out[1].rsp[1].value = FullPayload(seq, t_us)

\* C15: notifications-enabled is false as long as setup-ready is false and
\* in the state in which setup-ready becomes true, and afterwards turns
\* true only in the handling of a write of 01 00 to the CCCD.
C15_SubscriptionOffAtSetup ==
    /\ [](~sensor_ready => ~notify_enabled)
    /\ [][ (~sensor_ready /\ sensor_ready') => ~notify_enabled' ]_vars
    /\ [][ (~notify_enabled /\ notify_enabled')
           => /\ sensor_ready
              /\ HandlerStep
              /\ lastEvt'.kind = "WRITE"
              /\ lastEvt'.arg[1].handle = Stack.descr_handle
              /\ lastEvt'.arg[1].value = <<1, 0>> ]_vars

\* A peer connected during setup wrote 01 00 before the descriptor-add
\* completion was handled, and notifications-enabled stayed false.
C15_Witness ==
    /\ lastEvt.kind = "WRITE" /\ lastEvt.arg[1].value = <<1, 0>>
    /\ ~sensor_ready /\ ~notify_enabled /\ "ADD_DESCR" \in pending

\* a < b for unsigned integers held as limbs, least significant first.
LimbLess(a, b) ==
    \E k \in 1..Len(a) : a[k] < b[k] /\ \A j \in (k + 1)..Len(a) : a[j] = b[j]

\* C16: the k-th notification attempt of a run carries sequence number
\* k - 1, and the payload handed to the stack for an attempt (the one its
\* send carries) has a timestamp strictly greater than that of the attempt
\* before.
C16_SequenceAndTimeIncrease ==
    /\ [](SendIssued => /\ DecodeSeq(out[1].value) = U32Add(U32Zero, attempts - 1)
                        /\ out[1].value = attr_value
                        /\ DecodeTime(out[1].value) = t_us)
    /\ [][ (attr_value' # attr_value \/ (pc = "setattr" /\ pc' = "send"))
           => /\ pc = "setattr" /\ pc' = "send"
              /\ attr_value' = sensor_value
              /\ attempts >= 1 => LimbLess(DecodeTime(attr_value), DecodeTime(attr_value')) ]_vars

\* The second attempt, numbered 1, is sent after the subscription was lost
\* and made again.
C16_Witness ==
    /\ SendIssued /\ attempts = 2 /\ DecodeSeq(out[1].value) = <<1, 0>>
    /\ lastEvt.kind = "WRITE" /\ ~lastEvt.was_notify /\ notify_enabled

\* C17: once the twelve bytes are stored, reading bytes 0..3 as a
\* little-endian unsigned 32-bit integer gives the counter and bytes 4..11
\* as a little-endian unsigned 64-bit integer gives the timestamp, in the
\* buffer and in the copy handed to the stack, for every counter and
\* timestamp.
C17_PayloadRoundTrip ==
    /\ pc = "setattr" => (DecodeSeq(sensor_value) = seq /\ DecodeTime(sensor_value) = t_us)
    /\ pc = "send" => (DecodeSeq(attr_value) = seq /\ DecodeTime(attr_value) = t_us)
    /\ \A i \in 1..SENSOR_PAYLOAD_LEN : sensor_value[i] \in 0..(U8 - 1)

\* A payload whose fields have distinct bytes in every position was stored
\* over a buffer that held other bytes, and handed to the stack.
C17_Witness ==
    /\ pc = "send" /\ seq = <<513, 32895>> /\ t_us = <<513, 65535, 258, 65535>>
    /\ attr_value = <<1, 2, 127, 128, 1, 2, 255, 255, 2, 1, 255, 255>>

\* C18: the target wake time of the n-th tick is the task's start time (0)
\* plus n periods, each tick moves it by exactly one period whatever the
\* work of the earlier ticks took, and the task wakes at that instant.
C18_AbsoluteDeadlines ==
    /\ [](last_wake = ticks * SENSOR_PERIOD_MS)
    /\ [][ ticks' # ticks
           => /\ ticks' = ticks + 1
              /\ last_wake' = last_wake + SENSOR_PERIOD_MS
              /\ now' = last_wake' ]_vars
    /\ [][ last_wake' # last_wake => ticks' = ticks + 1 ]_vars

\* The second tick woke at two periods after a first tick that sent and
\* held the LED for the pulse.
C18_Witness ==
    /\ ticks = 2 /\ last_wake = 2 * SENSOR_PERIOD_MS /\ now = last_wake
    /\ attempts = 1 /\ err = "ESP_OK" /\ pc = "delay"
    /\ DecodeTime(attr_value) = TimeUs(SENSOR_PERIOD_MS)

\* C19: the step that ends led_set_green(true) after a successful send
\* leaves the LED green; the LED is green only between that step and the
\* end of led_set_green(false), after a send that returned ESP_OK; it is
\* off when the counter is incremented and when a tick's gate is
\* evaluated; and a failed send goes straight to the increment.
C19_PulseFollowsSuccess ==
    /\ [][ (pc = "led_on_refresh" /\ pc' = "pulse") => led' = "green" ]_vars
    /\ [](led = "green" => (err = "ESP_OK" /\ pc \in {"pulse", "led_off", "led_off_refresh"}))
    /\ [][ seq' # seq => (led = "off" /\ led' = "off") ]_vars
    /\ [][ ticks' # ticks => (led = "off" /\ led' = "off") ]_vars
    /\ [][ (pc = "send" /\ pc' # "send")
           => IF err' = "ESP_OK" THEN pc' = "led_on" ELSE (pc' = "inc" /\ led' = "off") ]_vars

\* C20: while no connection exists (from the handling of a disconnect to
\* the next connect, during which no send can succeed) the LED is off.
C20_IdleAfterDisconnect == link = NoLink => led = "off"

\* The second half of C20, which holds under SpecFair: every state with the
\* LED green is followed by one with the LED off.
C20_ActiveEndsIdle == (led = "green") ~> (led = "off")

====
